---- MODULE Spec2Model ----
(***************************************************************************)
(* A model of the Runner of go-service (src/runner.go, lines 1-405): the   *)
(* registry of running services, Start / Halt / Shutdown / Enable /        *)
(* Suspend, the worker's end path (ended) and the task-facing Ready.       *)
(*                                                                         *)
(* Every section of code that runs with rn.mu held is one atomic action.   *)
(* Start, Halt and Shutdown block in a select after releasing rn.mu, so    *)
(* each is split at that point into a call step and two ways of returning  *)
(* (the Signal's waiter, or the outer context). A call that returns before *)
(* its select stands at its return statement for one step, so that what it *)
(* returns is part of the state.                                           *)
(*                                                                         *)
(* runnerService (newRunnerService, starting, halting, setState, setReady, *)
(* Ready) and Signal are not part of src/; they are modelled from spec.md. *)
(***************************************************************************)
EXTENDS Integers, Sequences, FiniteSets, TLC

\* ------------------------------------------------------------------ bounds

\* Start episodes the model allows in one behaviour (caps rn.nextID).
MaxID == 2

\* Calls the callers may issue, in all, in one behaviour.
MaxCalls == 3

\* ----------------------------------------------------------------- values

\* The service descriptors (*Service) the callers hold; NilSvc is a nil
\* descriptor or one whose Runnable is nil.
Descs == {"s1", "s2"}
NilSvc == "nil-service"

\* The goroutines calling into the Runner.
Callers == {"a", "b"}

\* The argument lists (services ...*Service) the callers pass.
ArgLists ==
    {<<>>, <<"s1">>, <<"s2">>, <<"s1", "s2">>, <<"s1", "s1">>, <<NilSvc, "s2">>}

\* State (spec.md section 3).
Halted == "Halted"
Starting == "Starting"
Started == "Started"
Halting == "Halting"
Ended == "Ended"

\* Stage.
StageReady == "StageReady"
StageRun == "StageRun"

\* RunnerState.
RunnerEnabled == "Enabled"
RunnerSuspended == "Suspended"
RunnerShutdown == "Shutdown"

\* Errors. NoErr is a nil error; ErrRun is the error E a task's Run returns.
NoErr == "nil"
ErrRun == "E"
ErrAlreadyRunning == "service already running"
ErrNotEnabled == "runner is not enabled"
ErrCtx == "context canceled"

\* What a task's Run may return.
ErrServiceUnknown == "service unknown"
ErrState == "state error"
RunErrs == {NoErr, ErrRun}

\* A nil Signal, and a closed / open / nil done channel.
NoSignal == 0
ChanOpen == "open"
ChanClosed == "closed"
ChanPanic == "panic: close of closed channel"
ChanNil == "nil"

VARIABLES
    state,      \* rn.state
    services,   \* rn.services: descriptor -> id of its runnerService
    nextID,     \* rn.nextID
    rsvc,       \* the runnerServices whose worker has not ended, by id
    call,       \* per caller: the call it is in, and that call's Signal
    ncalls,     \* calls issued so far, by all callers
    onEnd,      \* per descriptor: the end callbacks dispatched so far
    last        \* the runnerService that ended last: its State as rn.ended
                \* left it and the error its end callbacks were given (and,
                \* where an end path is observed in full, their stage);
                \* <<>> before

vars == <<state, services, nextID, rsvc, call, ncalls, onEnd, last>>

Range(s) == {s[i] : i \in DOMAIN s}

\* ----------------------------------------------------------------- Signal

\* NewSignal(n) / NewMultiSignal(n): n completions are awaited.
NewSignal(n) == [pending |-> n, errs |-> <<>>]

\* A Signal is named by a number; a new one takes the least number that
\* neither a call in its select nor a runnerService still refers to.
SignalsInUse ==
    {call[c].ref : c \in DOMAIN call}
    \cup UNION {{rsvc[i].ready} \cup Range(rsvc[i].waiters) : i \in DOMAIN rsvc}

NextSignal ==
    CHOOSE n \in 1..(Cardinality(SignalsInUse) + 1) :
        /\ n \notin SignalsInUse
        /\ \A m \in 1..(n - 1) : m \in SignalsInUse

\* Signal.Done(err) on the Signal ref, given the callers' records cs. A
\* Signal whose call has returned has no reader: its completion is lost.
Done(cs, ref, err) ==
    IF \A c \in DOMAIN cs : cs[c].pc # "select" \/ cs[c].ref # ref THEN cs
    ELSE LET c == CHOOSE x \in DOMAIN cs : cs[x].pc = "select" /\ cs[x].ref = ref IN
         [cs EXCEPT ![c].sig =
             [pending |-> IF @.pending > 0 THEN @.pending - 1 ELSE 0,
              errs |-> IF err = NoErr THEN @.errs ELSE Append(@.errs, err)]]

\* Signal.Waiter() can be received from: all completions have arrived.
Waiter(c) == call[c].sig.pending = 0

\* ----------------------------------------------------------- runnerService

\* The transitions of State: a strict DAG (spec.md section 3); a state may
\* be installed when it is reachable from the current one.
Edges ==
    {<<Halted, Starting>>, <<Starting, Started>>, <<Started, Halting>>,
     <<Halting, Ended>>, <<Starting, Halting>>, <<Starting, Ended>>}

RECURSIVE Reach(_)
\* The pairs of states joined by a path of at most n transitions.
Reach(n) ==
    IF n = 1 THEN Edges
    ELSE LET p == Reach(n - 1) IN
         p \cup {<<x[1][1], x[2][2]>> :
                    x \in {y \in p \X Edges : y[1][2] = y[2][1]}}

Paths == Reach(Cardinality(Edges))

Reachable(from, to) == to # from /\ <<from, to>> \in Paths

\* rs.setState(to): installs the state when the transition is allowed.
setState(r, to) ==
    IF Reachable(r.state, to) THEN [r EXCEPT !.state = to] ELSE r

newRunnerService(id, svc, ready) ==
    [id |-> id, service |-> svc, state |-> Halted, stage |-> StageReady,
     readyCalled |-> FALSE, done |-> ChanOpen, ready |-> ready,
     waiters |-> <<>>, worker |-> "running"]

\* rs.starting(ctx)
starting(r) == setState(r, Starting)

\* close(ch): closing a channel that is closed, or nil, panics.
close(ch) == IF ch = ChanOpen THEN ChanClosed ELSE ChanPanic

\* A halting that closes done whatever it is.
haltingUnguarded(r, signal) ==
    [(IF r.state = Halting THEN r ELSE setState(r, Halting))
        EXCEPT !.done = close(@),
               !.waiters = Append(@, signal)]

\* rs.halting(signal): Halting, done closed (once), signal becomes a waiter.
halting(r, signal) ==
    [(IF r.state = Halting THEN r ELSE setState(r, Halting))
        EXCEPT !.done = IF @ = ChanOpen THEN close(@) ELSE @,
               !.waiters = Append(@, signal)]

\* rs.State()
StateOf(r) == r.state

\* rs.setReady(err): completes the readiness Signal, once.
setReady(cs, r, err) == Done(cs, r.ready, err)

\* ------------------------------------------------------------------ callers

\* A caller that is in no call. clean: the descriptors named by its last
\* Halt, if that returned nil through its Signal, that no Start has
\* registered since that Halt was issued.
IdleAfter(clean) ==
    [pc |-> "idle", op |-> "none", ref |-> NoSignal, ids |-> {},
     sig |-> NewSignal(0), clean |-> clean]

Idle == IdleAfter({})

\* A call blocked in its select on the Signal sig. ids: the runnerServices
\* it started or is halting. clean: for Halt, the descriptors it names that
\* no Start has registered since the call was issued; for Start, the
\* descriptors it registered that were clean for its caller.
Blocked(op, ids, sig, clean) ==
    [pc |-> "select", op |-> op, ref |-> NextSignal, ids |-> ids, sig |-> sig,
     clean |-> clean]

\* A call at a return statement before its select, returning the errors errs
\* (none: nil).
Returning(c, op, errs) ==
    [pc |-> "return", op |-> op, ref |-> NoSignal, ids |-> {},
     sig |-> [pending |-> 0, errs |-> errs], clean |-> call[c].clean]

CanCall(c) == call[c].pc = "idle" /\ ncalls < MaxCalls

\* A Start has registered the descriptors ds: they are no longer clean.
Unclean(cs, ds) == [c \in DOMAIN cs |-> [cs[c] EXCEPT !.clean = @ \ ds]]

\* The return statements before a select: the caller is back.
Return(c) ==
    /\ call[c].pc = "return"
    /\ call' = [call EXCEPT ![c] = IdleAfter(call[c].clean)]
    /\ UNCHANGED <<state, services, nextID, rsvc, ncalls, onEnd, last>>

\* ----------------------------------------------------------------- Start

\* A lookup that never finds the descriptor.
isRunningNever(svcs, svc) == FALSE

\* rs := rn.services[svc]; rs != nil
isRunning(svcs, svc) == svc \in DOMAIN svcs

\* An iteration that registers the descriptor without rs.starting.
StartOneNoStarting(st, svc, ref) ==
    IF svc = NilSvc
    THEN [st EXCEPT !.sig = [@ EXCEPT !.pending = @ - 1]]
    ELSE IF isRunning(st.services, svc)
    THEN [st EXCEPT !.sig = [pending |-> @.pending - 1,
                             errs |-> Append(@.errs, ErrAlreadyRunning)]]
    ELSE LET id == st.nextID + 1 IN
         [st EXCEPT !.nextID = id,
                    !.services = (svc :> id) @@ @,
                    !.rsvc = @ @@ (id :> newRunnerService(id, svc, ref)),
                    !.ids = @ \cup {id}]

\* An iteration that reports "service already running" for a registered
\* descriptor and registers it anew all the same.
StartOneReplace(st, svc, ref) ==
    IF svc = NilSvc
    THEN [st EXCEPT !.sig = [@ EXCEPT !.pending = @ - 1]]
    ELSE LET id == st.nextID + 1
             s1 == IF isRunning(st.services, svc)
                   THEN [st EXCEPT !.sig.errs = Append(@, ErrAlreadyRunning)]
                   ELSE st
         IN [s1 EXCEPT !.nextID = id,
                       !.services = (svc :> id) @@ @,
                       !.rsvc = @ @@ (id :> starting(newRunnerService(id, svc, ref))),
                       !.ids = @ \cup {id}]

\* One iteration of Start's loop over services, on
\* st = [services, nextID, rsvc, sig, ids] and the Signal ref of the call.
StartOne(st, svc, ref) ==
    IF svc = NilSvc
    THEN [st EXCEPT !.sig = [@ EXCEPT !.pending = @ - 1]]
    ELSE IF isRunning(st.services, svc)
    THEN [st EXCEPT !.sig = [pending |-> @.pending - 1,
                             errs |-> Append(@.errs, ErrAlreadyRunning)]]
    ELSE LET id == st.nextID + 1 IN
         [st EXCEPT !.nextID = id,
                    !.services = (svc :> id) @@ @,
                    !.rsvc = @ @@ (id :> starting(newRunnerService(id, svc, ref))),
                    !.ids = @ \cup {id}]

RECURSIVE StartLoop(_, _, _)
StartLoop(st, args, ref) ==
    IF args = <<>> THEN st
    ELSE StartLoop(StartOne(st, Head(args), ref), Tail(args), ref)

\* A Start that does not look at rn.state.
StartUnguarded(c, args) ==
    /\ CanCall(c)
    /\ ncalls' = ncalls + 1
    /\ UNCHANGED state
    /\ IF Len(args) = 0
       THEN /\ call' = [call EXCEPT ![c] = Returning(c, "Start", <<>>)]
            /\ UNCHANGED <<services, nextID, rsvc, onEnd, last>>
       ELSE LET st == StartLoop([services |-> services, nextID |-> nextID,
                                 rsvc |-> rsvc, sig |-> NewSignal(Len(args)),
                                 ids |-> {}], args, NextSignal)
                new == {st.rsvc[i].service : i \in st.ids}
            IN /\ st.nextID <= MaxID
               /\ services' = st.services
               /\ nextID' = st.nextID
               /\ rsvc' = st.rsvc
               /\ UNCHANGED <<onEnd, last>>
               /\ call' = [Unclean(call, new) EXCEPT
                             ![c] = Blocked("Start", st.ids, st.sig,
                                            call[c].clean \cap new)]

\* Start, up to the select: the section that holds rn.mu.
Start(c, args) ==
    /\ CanCall(c)
    /\ ncalls' = ncalls + 1
    /\ UNCHANGED state
    /\ IF Len(args) = 0
       THEN /\ call' = [call EXCEPT ![c] = Returning(c, "Start", <<>>)]
            /\ UNCHANGED <<services, nextID, rsvc, onEnd, last>>
       ELSE IF state # RunnerEnabled
       THEN /\ call' = [call EXCEPT ![c] = Returning(c, "Start", <<ErrNotEnabled>>)]
            /\ UNCHANGED <<services, nextID, rsvc, onEnd, last>>
       ELSE LET st == StartLoop([services |-> services, nextID |-> nextID,
                                 rsvc |-> rsvc, sig |-> NewSignal(Len(args)),
                                 ids |-> {}], args, NextSignal)
                new == {st.rsvc[i].service : i \in st.ids}
            IN /\ st.nextID <= MaxID
               /\ services' = st.services
               /\ nextID' = st.nextID
               /\ rsvc' = st.rsvc
               /\ UNCHANGED <<onEnd, last>>
               /\ call' = [Unclean(call, new) EXCEPT
                             ![c] = Blocked("Start", st.ids, st.sig,
                                            call[c].clean \cap new)]

\* A Start that returns without waiting for its Signal.
StartWaitEarly(c) ==
    /\ call[c].pc = "select" /\ call[c].op = "Start"
    /\ call' = [call EXCEPT ![c] = Idle]
    /\ UNCHANGED <<state, services, nextID, rsvc, ncalls, onEnd, last>>

\* A Start that, when it returns errors, takes the services it registered
\* out of the registry.
StartWaitRollback(c) ==
    /\ call[c].pc = "select" /\ call[c].op = "Start"
    /\ Waiter(c)
    /\ call' = [call EXCEPT ![c] = Idle]
    /\ services' = IF call[c].sig.errs = <<>> THEN services
                   ELSE [d \in {x \in DOMAIN services :
                                    services[x] \notin call[c].ids} |->
                            services[d]]
    /\ UNCHANGED <<state, nextID, rsvc, ncalls, onEnd, last>>

\* case err := <-ready.Waiter()
StartWait(c) ==
    /\ call[c].pc = "select" /\ call[c].op = "Start"
    /\ Waiter(c)
    /\ call' = [call EXCEPT ![c] = Idle]
    /\ UNCHANGED <<state, services, nextID, rsvc, ncalls, onEnd, last>>

\* A cancelled Start that halts the services it started.
StartCtxDoneHalts(c) ==
    /\ call[c].pc = "select" /\ call[c].op = "Start"
    /\ call' = [call EXCEPT ![c] = Idle]
    /\ rsvc' = [i \in DOMAIN rsvc |->
                  IF i \in call[c].ids THEN halting(rsvc[i], NoSignal)
                  ELSE rsvc[i]]
    /\ UNCHANGED <<state, services, nextID, ncalls, onEnd, last>>

\* case <-ctxDone
StartCtxDone(c) ==
    /\ call[c].pc = "select" /\ call[c].op = "Start"
    /\ call' = [call EXCEPT ![c] = Idle]
    /\ UNCHANGED <<state, services, nextID, rsvc, ncalls, onEnd, last>>

\* ------------------------------------------------------------------ Halt

\* An iteration that does not complete the slot of an unregistered
\* descriptor.
HaltOneLost(st, svc, ref) ==
    IF ~isRunning(services, svc)
    THEN st
    ELSE LET id == services[svc] IN
         [st EXCEPT !.rsvc = [@ EXCEPT ![id] = halting(@, ref)],
                    !.ids = @ \cup {id}]

\* An iteration for which halting a record that is Halting already is a
\* state error that completes no slot: errs = append(errs, err); continue.
HaltOneStateError(st, svc, ref) ==
    IF ~isRunning(services, svc)
    THEN [st EXCEPT !.sig = [@ EXCEPT !.pending = @ - 1]]
    ELSE LET id == services[svc] IN
         IF st.rsvc[id].state = Halting
         THEN [st EXCEPT !.sig.errs = Append(@, ErrState),
                         !.ids = @ \cup {id}]
         ELSE [st EXCEPT !.rsvc = [@ EXCEPT ![id] = halting(@, ref)],
                         !.ids = @ \cup {id}]

\* One iteration of Halt's loop on st = [rsvc, sig, ids].
HaltOne(st, svc, ref) ==
    IF ~isRunning(services, svc)
    THEN [st EXCEPT !.sig = [@ EXCEPT !.pending = @ - 1]]
    ELSE LET id == services[svc] IN
         [st EXCEPT !.rsvc = [@ EXCEPT ![id] = halting(@, ref)],
                    !.ids = @ \cup {id}]

RECURSIVE HaltLoop(_, _, _)
HaltLoop(st, args, ref) ==
    IF args = <<>> THEN st
    ELSE HaltLoop(HaltOne(st, Head(args), ref), Tail(args), ref)

\* Halt, up to the select.
Halt(c, args) ==
    /\ CanCall(c)
    /\ ncalls' = ncalls + 1
    /\ UNCHANGED <<state, services, nextID, onEnd, last>>
    /\ IF Len(args) = 0
       THEN /\ call' = [call EXCEPT ![c] = Returning(c, "Halt", <<>>)]
            /\ UNCHANGED rsvc
       ELSE LET st == HaltLoop([rsvc |-> rsvc, sig |-> NewSignal(Len(args)),
                                ids |-> {}], args, NextSignal)
            IN /\ rsvc' = st.rsvc
               /\ call' = [call EXCEPT ![c] =
                             Blocked("Halt", st.ids, st.sig, Range(args) \cap Descs)]

\* A Halt that returns without waiting for its Signal.
HaltWaitEarly(c) ==
    /\ call[c].pc = "select" /\ call[c].op = "Halt"
    /\ call' = [call EXCEPT ![c] =
                  IdleAfter(IF call[c].sig.errs = <<>> THEN call[c].clean ELSE {})]
    /\ UNCHANGED <<state, services, nextID, rsvc, ncalls, onEnd, last>>

\* case err := <-done.Waiter()
HaltWait(c) ==
    /\ call[c].pc = "select" /\ call[c].op = "Halt"
    /\ Waiter(c)
    /\ call' = [call EXCEPT ![c] =
                  IdleAfter(IF call[c].sig.errs = <<>> THEN call[c].clean ELSE {})]
    /\ UNCHANGED <<state, services, nextID, rsvc, ncalls, onEnd, last>>

\* A Halt whose select has no ctxDone case.
HaltCtxDoneNever(c) ==
    /\ FALSE
    /\ UNCHANGED vars

\* A cancelled Halt that takes the services it was halting out of the
\* registry.
HaltCtxDoneReclaim(c) ==
    /\ call[c].pc = "select" /\ call[c].op = "Halt"
    /\ call' = [call EXCEPT ![c] = Idle]
    /\ services' = [d \in {x \in DOMAIN services : services[x] \notin call[c].ids}
                      |-> services[d]]
    /\ UNCHANGED <<state, nextID, rsvc, ncalls, onEnd, last>>

\* case <-ctxDone
HaltCtxDone(c) ==
    /\ call[c].pc = "select" /\ call[c].op = "Halt"
    /\ call' = [call EXCEPT ![c] = Idle]
    /\ UNCHANGED <<state, services, nextID, rsvc, ncalls, onEnd, last>>

\* -------------------------------------------------------------- Shutdown

\* A Shutdown that halts no service.
HaltAllNot(rs, ids, ref) == rs

RECURSIVE HaltAll(_, _, _)
\* for _, rs := range rn.services { rs.halting(signal) }
HaltAll(rs, ids, ref) ==
    IF ids = {} THEN rs
    ELSE LET id == CHOOSE i \in ids : TRUE IN
         HaltAll([rs EXCEPT ![id] = halting(@, ref)], ids \ {id}, ref)

\* A Shutdown that does not look at rn.state.
ShutdownUnguarded(c) ==
    /\ CanCall(c)
    /\ ncalls' = ncalls + 1
    /\ UNCHANGED <<services, nextID, onEnd, last>>
    /\ LET ids == {services[d] : d \in DOMAIN services} IN
       /\ state' = RunnerShutdown
       /\ rsvc' = HaltAll(rsvc, ids, NextSignal)
       /\ call' = [call EXCEPT ![c] =
                     Blocked("Shutdown", ids, NewSignal(Cardinality(ids)), {})]

\* Shutdown, up to the select.
Shutdown(c) ==
    /\ CanCall(c)
    /\ ncalls' = ncalls + 1
    /\ UNCHANGED <<services, nextID, onEnd, last>>
    /\ IF state # RunnerEnabled /\ state # RunnerSuspended
       THEN /\ call' = [call EXCEPT ![c] = Returning(c, "Shutdown", <<ErrNotEnabled>>)]
            /\ UNCHANGED <<state, rsvc>>
       ELSE LET ids == {services[d] : d \in DOMAIN services} IN
            /\ state' = RunnerShutdown
            /\ rsvc' = HaltAll(rsvc, ids, NextSignal)
            /\ call' = [call EXCEPT ![c] =
                          Blocked("Shutdown", ids, NewSignal(Cardinality(ids)), {})]

\* case err := <-signal.Waiter()
ShutdownWait(c) ==
    /\ call[c].pc = "select" /\ call[c].op = "Shutdown"
    /\ Waiter(c)
    /\ call' = [call EXCEPT ![c] = Idle]
    /\ UNCHANGED <<state, services, nextID, rsvc, ncalls, onEnd, last>>

\* case <-ctxDone
ShutdownCtxDone(c) ==
    /\ call[c].pc = "select" /\ call[c].op = "Shutdown"
    /\ call' = [call EXCEPT ![c] = Idle]
    /\ UNCHANGED <<state, services, nextID, rsvc, ncalls, onEnd, last>>

\* ------------------------------------------------------ Enable / Suspend

\* An Enable that refuses to resume a Runner in Shutdown.
EnableStrict(c) ==
    /\ CanCall(c)
    /\ ncalls' = ncalls + 1
    /\ IF state = RunnerShutdown
       THEN /\ call' = [call EXCEPT ![c] = Returning(c, "Enable", <<ErrNotEnabled>>)]
            /\ UNCHANGED state
       ELSE /\ state' = RunnerEnabled
            /\ call' = [call EXCEPT ![c] = Returning(c, "Enable", <<>>)]
    /\ UNCHANGED <<services, nextID, rsvc, onEnd, last>>

Enable(c) ==
    /\ CanCall(c)
    /\ ncalls' = ncalls + 1
    /\ state' = RunnerEnabled
    /\ call' = [call EXCEPT ![c] = Returning(c, "Enable", <<>>)]
    /\ UNCHANGED <<services, nextID, rsvc, onEnd, last>>

\* A Suspend that also asks every registered service to halt.
SuspendHalting(c) ==
    /\ CanCall(c)
    /\ ncalls' = ncalls + 1
    /\ IF state # RunnerEnabled
       THEN /\ call' = [call EXCEPT ![c] = Returning(c, "Suspend", <<ErrNotEnabled>>)]
            /\ UNCHANGED <<state, rsvc>>
       ELSE /\ state' = RunnerSuspended
            /\ rsvc' = HaltAll(rsvc, DOMAIN rsvc, NoSignal)
            /\ call' = [call EXCEPT ![c] = Returning(c, "Suspend", <<>>)]
    /\ UNCHANGED <<services, nextID, onEnd, last>>

\* A Suspend that installs Suspended whatever rn.state is.
SuspendAny(c) ==
    /\ CanCall(c)
    /\ ncalls' = ncalls + 1
    /\ state' = RunnerSuspended
    /\ call' = [call EXCEPT ![c] = Returning(c, "Suspend", <<>>)]
    /\ UNCHANGED <<services, nextID, rsvc, onEnd, last>>

Suspend(c) ==
    /\ CanCall(c)
    /\ ncalls' = ncalls + 1
    /\ IF state # RunnerEnabled
       THEN /\ call' = [call EXCEPT ![c] = Returning(c, "Suspend", <<ErrNotEnabled>>)]
            /\ UNCHANGED state
       ELSE /\ state' = RunnerSuspended
            /\ call' = [call EXCEPT ![c] = Returning(c, "Suspend", <<>>)]
    /\ UNCHANGED <<services, nextID, rsvc, onEnd, last>>

\* ------------------------------------------------------------------ State

\* State(svc), when nothing runs between its lookup and rs.State().
State(svc) ==
    IF isRunning(services, svc) THEN StateOf(rsvc[services[svc]]) ELSE Halted

\* ----------------------------------------------------------- the worker

\* A Ready that does not look at the State: it succeeds on a service that is
\* being halted.
ReadyUnchecked(id) ==
    /\ id \in DOMAIN rsvc
    /\ rsvc[id].worker = "running"
    /\ LET r == rsvc[id] IN
       IF r.readyCalled
       THEN UNCHANGED <<rsvc, call>>
       ELSE /\ rsvc' = [rsvc EXCEPT ![id] =
                          [r EXCEPT !.state = Started, !.readyCalled = TRUE,
                                    !.stage = StageRun, !.ready = NoSignal]]
            /\ call' = setReady(call, r, NoErr)
    /\ UNCHANGED <<state, services, nextID, ncalls, onEnd, last>>

\* ctx.Ready(), called by the task of runnerService id. It fails when the
\* service is being halted or Ready was already called; otherwise the
\* service becomes Started, its stage StageRun, and the readiness Signal is
\* completed with nil.
Ready(id) ==
    /\ id \in DOMAIN rsvc
    /\ rsvc[id].worker = "running"
    /\ LET r == rsvc[id] IN
       IF r.readyCalled \/ r.state # Starting
       THEN UNCHANGED <<rsvc, call>>
       ELSE /\ rsvc' = [rsvc EXCEPT ![id] =
                          [setState(r, Started) EXCEPT !.readyCalled = TRUE,
                                                       !.stage = StageRun,
                                                       !.ready = NoSignal]]
            /\ call' = setReady(call, r, NoErr)
    /\ UNCHANGED <<state, services, nextID, ncalls, onEnd, last>>

\* ---------------------------------------------------------------- Services

\* A query is the set of states it matches; state.Match(query).
Match(st, query) == st \in query

AnyState == {Starting, Started, Halting, Ended}
Queries == {{Halted}, {Starting}, {Started}, {Halting}, AnyState}
Limits == {-1, 0, 1, 2}

ServiceInfo(svc, st) == [Service |-> svc, State |-> st]

\* The slices a caller passes as into: nil, and one entry left by an earlier
\* poll.
Intos == {<<>>, <<ServiceInfo("s1", Started)>>}

\* The orders in which range may visit the keys of a map.
Orders(S) ==
    {f \in [1..Cardinality(S) -> S] : \A i, j \in DOMAIN f : f[i] = f[j] => i = j}

RECURSIVE ServicesLoop(_, _, _, _, _)
\* for service, rs := range rn.services { ... }, the keys still to visit
\* being ord, with n matches appended so far.
ServicesLoop(into, ord, query, limit, n) ==
    IF ord = <<>> THEN into
    ELSE LET st == State(Head(ord)) IN
         IF Match(st, query)
         THEN LET out == Append(into, ServiceInfo(Head(ord), st)) IN
              IF n + 1 >= limit THEN out
              ELSE ServicesLoop(out, Tail(ord), query, limit, n + 1)
         ELSE ServicesLoop(into, Tail(ord), query, limit, n)

\* What Services(query, limit, into) returns when range visits the registry
\* in the order ord.
ServicesResult(query, limit, into, ord) ==
    IF query = {Halted} THEN <<>>
    ELSE IF Cardinality(DOMAIN services) = 0 THEN into
    ELSE LET lim == IF limit <= 0 THEN Cardinality(DOMAIN services) ELSE limit
         IN ServicesLoop(into, ord, query, lim, 0)

\* Services(query, limit, into): one rn.mu section, then the return.
Services(c, query, limit, into) ==
    /\ CanCall(c)
    /\ ncalls' = ncalls + 1
    /\ \E ord \in Orders(DOMAIN services) :
          call' = [call EXCEPT ![c] =
                     [pc |-> "return", op |-> "Services", ref |-> NoSignal,
                      ids |-> {}, sig |-> [pending |-> 0, errs |-> <<>>],
                      clean |-> call[c].clean,
                      out |-> ServicesResult(query, limit, into, ord)]]
    /\ UNCHANGED <<state, services, nextID, rsvc, onEnd, last>>

\* What Ready returns to the task of runnerService id: an unknown service is
\* an error; the error of an illegal transition to Started (errState) is
\* dropped ("State errors don't matter here"), and nil is returned.
ReadyResult(rs, id) ==
    IF id \notin DOMAIN rs THEN ErrServiceUnknown
    ELSE LET err == IF rs[id].state = Starting THEN NoErr ELSE ErrState
         IN IF err = ErrState THEN NoErr ELSE err

\* An end path that leaves the registry as it is.
removeServiceNot(svcs, svc) == svcs

\* delete(rn.services, rsvc.service)
removeService(svcs, svc) == [d \in DOMAIN svcs \ {svc} |-> svcs[d]]

\* An end path that tells the halt waiters the Run error at any stage.
haltErrorAlways(stage, err) == err

\* herr: what the halt waiters are told.
haltError(stage, err) == IF stage = StageReady THEN NoErr ELSE err

\* An end path that gives the end callbacks what it tells the halt waiters.
endErrorSplit(stage, err) == IF stage = StageReady THEN NoErr ELSE err

\* The error rn.ended gives the end callbacks: err as Run returned it, not
\* herr.
endError(stage, err) == err

\* An end path that dispatches no end callback.
raiseOnEndedNot(log, svc, stage, err) == log

\* rn.raiseOnEnded(stage, service, err): the end callbacks of service are
\* dispatched, each on a goroutine of its own.
raiseOnEnded(log, svc, stage, err) == [log EXCEPT ![svc] = @ + 1]

RECURSIVE NotifyAll(_, _, _)
\* for _, w := range rsvc.waiters { w.Done(herr) }
NotifyAll(cs, waiters, herr) ==
    IF waiters = <<>> THEN cs
    ELSE NotifyAll(Done(cs, Head(waiters), herr), Tail(waiters), herr)

\* An end path that calls the end callbacks inline, under rn.mu, with
\* callbacks that never return: after the first one no end path runs.
endedInline(id, err) ==
    /\ \A d \in Descs : onEnd[d] = 0
    /\ id \in DOMAIN rsvc
    /\ rsvc[id].worker = "running"
    /\ services' = removeService(services, rsvc[id].service)
    /\ onEnd' = raiseOnEnded(onEnd, rsvc[id].service, rsvc[id].stage, err)
    /\ call' = NotifyAll(IF rsvc[id].stage = StageReady
                            THEN setReady(call, rsvc[id], err) ELSE call,
                         rsvc[id].waiters, haltError(rsvc[id].stage, err))
    /\ rsvc' = [i \in DOMAIN rsvc \ {id} |-> rsvc[i]]
    /\ last' = <<Ended, err>>
    /\ UNCHANGED <<state, nextID, ncalls>>

\* What is kept of an end path: the State rn.ended left the record in and
\* the error its end callbacks were given.
EndedBrief(st, err, stage) == <<st, err>>

\* The same, and the stage the end callbacks were given.
EndedFull(st, err, stage) == <<st, err, stage>>

\* rn.ended(rs, err) for runnerService id, keeping its stage in last
\* when full.
\* Nothing refers to the runnerService afterwards: it leaves rsvc.
endedKeeping(id, err, full) ==
    /\ id \in DOMAIN rsvc
    /\ rsvc[id].worker = "running"
    /\ LET r == rsvc[id]
           r1 == [setState(r, Ended) EXCEPT !.done = ChanNil]
           cs1 == IF r1.stage = StageReady THEN setReady(call, r1, err) ELSE call
           r2 == IF r1.stage = StageReady THEN [r1 EXCEPT !.ready = NoSignal] ELSE r1
       IN /\ services' = removeService(services, r.service)
          /\ onEnd' = raiseOnEnded(onEnd, r.service, r2.stage, err)
          /\ call' = NotifyAll(cs1, r2.waiters, haltError(r2.stage, err))
          /\ rsvc' = [i \in DOMAIN rsvc \ {id} |-> rsvc[i]]
          /\ last' = IF full
                     THEN EndedFull(r2.state, endError(r2.stage, err), r2.stage)
                     ELSE EndedBrief(r2.state, endError(r2.stage, err), r2.stage)
    /\ UNCHANGED <<state, nextID, ncalls>>

\* The Signals runnerService id will complete that no call is waiting on
\* any more: the call that made them returned through its ctxDone case.
AbandonedSignals(id) ==
    {s \in ({rsvc[id].ready} \cup Range(rsvc[id].waiters)) \ {NoSignal} :
        \A c \in Callers : call[c].pc # "select" \/ call[c].ref # s}

\* An end path that waits, in Done, for a reader of each Signal.
endedWhenRead(id, err) ==
    /\ id \in DOMAIN rsvc
    /\ AbandonedSignals(id) = {}
    /\ endedKeeping(id, err, FALSE)

\* The worker of runnerService id: Run returns err, then rn.ended(rs, err).
ended(id, err) ==
    /\ id \in DOMAIN rsvc
    /\ endedKeeping(id, err, FALSE)

\* The same worker, observed with the stage given to its end callbacks.
endedObserved(id, err) ==
    /\ id \in DOMAIN rsvc
    /\ endedKeeping(id, err, TRUE)

\* ------------------------------------------------------- the specification

Init ==
    /\ state = RunnerEnabled
    /\ services = <<>>
    /\ nextID = 0
    /\ rsvc = <<>>
    /\ call = [c \in Callers |-> Idle]
    /\ ncalls = 0
    /\ onEnd = [d \in Descs |-> 0]
    /\ last = <<>>

Next ==
    \/ \E c \in Callers, args \in ArgLists : Start(c, args)
    \/ \E c \in Callers : StartWait(c)
    \/ \E c \in Callers : StartCtxDone(c)
    \/ \E c \in Callers, args \in ArgLists : Halt(c, args)
    \/ \E c \in Callers : HaltWait(c)
    \/ \E c \in Callers : HaltCtxDone(c)
    \/ \E c \in Callers : Shutdown(c)
    \/ \E c \in Callers : ShutdownWait(c)
    \/ \E c \in Callers : ShutdownCtxDone(c)
    \/ \E c \in Callers : Enable(c)
    \/ \E c \in Callers : Suspend(c)
    \/ \E c \in Callers : Return(c)
    \/ \E id \in 1..MaxID : Ready(id)
    \/ \E id \in 1..MaxID, err \in RunErrs : ended(id, err)

Spec == Init /\ [][Next]_vars

\* ------------------------------------------------------------- properties

\* The runnerServices of descriptor d whose worker has not ended.
Live(rs, d) == {i \in DOMAIN rs : rs[i].service = d /\ rs[i].worker = "running"}

RECURSIVE Sum(_, _)
Sum(f, S) == IF S = {} THEN 0
             ELSE LET x == CHOOSE y \in S : TRUE IN f[x] + Sum(f, S \ {x})

\* C1 (sequential restart): when a caller's Halt of d has returned nil
\* through its Signal and no Start has registered d since that Halt was
\* issued, a Start by the same caller that names d, with the Runner
\* Enabled, registers d anew: d is not rejected with "service already
\* running", and a Start naming d alone records no error at all.
C1_SequentialRestart ==
    [][\A c \in Callers, args \in ArgLists :
         (Start(c, args) /\ state = RunnerEnabled)
         => \A d \in Range(args) \cap call[c].clean :
               /\ d \in DOMAIN services'
               /\ services'[d] \in call'[c].ids
               /\ services'[d] > nextID
               /\ args = <<d>> => call'[c].sig.errs = <<>>]_vars

\* A caller is in the Start that registered anew a descriptor its own Halt
\* had just brought down.
C1_Witness ==
    \E c \in Callers :
        /\ call[c].op = "Start" /\ call[c].pc = "select"
        /\ \E id \in call[c].ids :
              /\ id \in DOMAIN rsvc
              /\ rsvc[id].service \in call[c].clean
              /\ onEnd[rsvc[id].service] >= 1

\* C2 (uniqueness): in every reachable state the Runner holds at most one
\* runnerService, and at most one running worker, for any descriptor, and
\* the registry's entry for the descriptor is that runnerService.
C2_Uniqueness ==
    \A d \in Descs :
        /\ Cardinality({i \in DOMAIN rsvc : rsvc[i].service = d}) <= 1
        /\ Cardinality(Live(rsvc, d)) <= 1
        /\ \A i \in Live(rsvc, d) : isRunning(services, d) /\ services[d] = i

\* A Start that names a running descriptor has been turned away, and the
\* descriptor still has its one runnerService.
C2_Witness ==
    \E c \in Callers, d \in Descs :
        /\ call[c].op = "Start"
        /\ ErrAlreadyRunning \in Range(call[c].sig.errs)
        /\ Cardinality(Live(rsvc, d)) = 1
        /\ services[d] \in Live(rsvc, d)

\* C3 (single end callback): a step dispatches the end callback of d once
\* for each worker of d that ends in it and never otherwise; when it is
\* dispatched d is no longer in the registry; d is registered anew only when
\* every earlier episode of d has ended (and so has had its callback); at
\* any time the callbacks dispatched are as many as the episodes that ended.
C3_SingleEndCallback ==
    [][/\ Sum(onEnd, Descs) + Cardinality(DOMAIN rsvc) = nextID
       /\ \A d \in Descs :
            LET gone == Live(rsvc, d) \ Live(rsvc', d)
                new == Live(rsvc', d) \ Live(rsvc, d)
            IN /\ onEnd'[d] = onEnd[d] + Cardinality(gone)
               /\ gone # {} => ~isRunning(services', d)
               /\ new # {} => Live(rsvc, d) = {}]_vars

\* A descriptor whose first episode ended, with its callback dispatched,
\* runs again.
C3_Witness ==
    \E d \in Descs : onEnd[d] = 1 /\ isRunning(services, d) /\ nextID >= 2

\* The State a runnerService has after a step: its own, or, when its worker
\* ended in the step, the State rn.ended left it in.
StateAfter(id) == IF id \in DOMAIN rsvc' THEN rsvc'[id].state ELSE last'[1]

\* The changes of State that I5 of spec.md allows within one episode.
PrefixSteps ==
    {<<Starting, Started>>, <<Starting, Halting>>, <<Started, Halting>>,
     <<Halting, Ended>>}

Readers(ref) == {c \in Callers : call[c].pc = "select" /\ call[c].ref = ref}

\* How often the Signal ref is among waiters.
Count(waiters, ref) == Cardinality({i \in DOMAIN waiters : waiters[i] = ref})

\* What n completions with err make of a Signal.
RECURSIVE Completed(_, _, _)
Completed(sig, err, n) ==
    IF n = 0 THEN sig
    ELSE Completed([pending |-> sig.pending - 1,
                    errs |-> IF err = NoErr THEN sig.errs
                             ELSE Append(sig.errs, err)], err, n - 1)

\* C7 (stage-sensitive error routing): when a worker ends with the Run
\* error err while its stage is StageReady, the caller waiting for its
\* readiness receives err and every caller halting it receives nil; when
\* its stage is StageRun, every caller halting it receives err.
C7_ErrorRouting ==
    [][\A id \in DOMAIN rsvc \ DOMAIN rsvc' :
         LET r == rsvc[id]
             err == last'[2]
             herr == IF r.stage = StageReady THEN NoErr ELSE err
         IN /\ r.stage = StageReady =>
                  \A c \in Readers(r.ready) :
                     call'[c].sig = Completed(call[c].sig, err, 1)
            /\ r.stage = StageRun => r.ready = NoSignal
            /\ \A c \in Callers :
                  (call[c].pc = "select" /\ Count(r.waiters, call[c].ref) > 0)
                  => call'[c].sig =
                        Completed(call[c].sig, herr, Count(r.waiters, call[c].ref))]_vars

\* A worker has ended with E before becoming ready while one caller was in
\* Start and the other in Halt: the Start is about to return E, the Halt
\* nil.
C7_Witness ==
    /\ last # <<>> /\ last[1] = Ended /\ last[2] = ErrRun
    /\ \E c1, c2 \in Callers :
          /\ call[c1].op = "Start" /\ call[c1].pc = "select"
          /\ Waiter(c1) /\ call[c1].sig.errs = <<ErrRun>>
          /\ call[c2].op = "Halt" /\ call[c2].pc = "select"
          /\ call[c2].ids # {}
          /\ Waiter(c2) /\ call[c2].sig.errs = <<>>

\* C8 (halt completion): when a Halt returns nil through its Signal, the
\* worker of every runnerService it halted has ended and the runnerService
\* is gone, and State reports Halted for every descriptor it named that no
\* Start has registered since the Halt was issued.
C8_HaltCompletion ==
    [][\A c \in Callers :
         (HaltWait(c) /\ call[c].sig.errs = <<>>) =>
            /\ \A id \in call[c].ids : id \notin DOMAIN rsvc
            /\ \A d \in call[c].clean : State(d) = Halted]_vars

\* A Halt that found a service running is about to return nil: the
\* service's worker has ended.
C8_Witness ==
    \E c \in Callers :
        /\ call[c].op = "Halt" /\ call[c].pc = "select"
        /\ Waiter(c) /\ call[c].sig.errs = <<>>
        /\ call[c].ids # {} /\ call[c].clean # {}
        /\ \A id \in call[c].ids : id \notin DOMAIN rsvc

\* C9 (idempotent halt): a Halt that names only descriptors that are not
\* registered leaves the registry, the runnerServices and the RunnerState
\* as they are, and its Signal is complete with no error at once: it
\* returns nil without blocking, however often it is repeated.
C9_IdempotentHalt ==
    [][\A c \in Callers, args \in ArgLists :
         (/\ Halt(c, args)
          /\ \A i \in DOMAIN args : ~isRunning(services, args[i]))
         => /\ UNCHANGED <<services, rsvc, state>>
            /\ call'[c].sig.pending = 0
            /\ call'[c].sig.errs = <<>>
            /\ call'[c].ids = {}]_vars

\* A Halt of a descriptor whose service ended earlier found nothing
\* registered and is about to return nil.
C9_Witness ==
    \E c \in Callers :
        /\ call[c].op = "Halt" /\ call[c].pc = "select"
        /\ call[c].ids = {} /\ Waiter(c) /\ call[c].sig.errs = <<>>
        /\ \E d \in call[c].clean : onEnd[d] >= 1 /\ ~isRunning(services, d)

\* C10 (Start-while-running rejection): a Start, with the Runner Enabled,
\* that names a descriptor already registered records "service already
\* running", leaves the registry entry and the runnerService (its State,
\* stage, waiters, worker) as they are, so that State reports what it
\* reported, and starts no further worker for the descriptor.
C10_StartWhileRunning ==
    [][\A c \in Callers, args \in ArgLists :
         (Start(c, args) /\ state = RunnerEnabled) =>
            \A d \in Range(args) \cap DOMAIN services :
               /\ ErrAlreadyRunning \in Range(call'[c].sig.errs)
               /\ services'[d] = services[d]
               /\ rsvc'[services[d]] = rsvc[services[d]]
               /\ Live(rsvc', d) = Live(rsvc, d)
               /\ State(d)' = State(d)]_vars

\* A Start that named only a Started service has been turned away, and the
\* service is still Started.
C10_Witness ==
    \E c \in Callers, d \in Descs :
        /\ call[c].op = "Start" /\ call[c].pc = "select"
        /\ call[c].ids = {}
        /\ call[c].sig.errs = <<ErrAlreadyRunning>>
        /\ DOMAIN services = {d}
        /\ State(d) = Started

\* C11 (shutdown closure): while RunnerState is Shutdown, that is from a
\* Shutdown until Enable is called, a Start that names at least one
\* descriptor (spec.md 4.2: one or more) returns "runner is not enabled"
\* before its select, registers no service and starts no worker.
C11_ShutdownClosure ==
    [][\A c \in Callers, args \in ArgLists :
         (Start(c, args) /\ state = RunnerShutdown /\ Len(args) > 0)
         => /\ call'[c].pc = "return"
            /\ call'[c].sig.errs = <<ErrNotEnabled>>
            /\ UNCHANGED <<services, rsvc, nextID, state>>]_vars

\* A Shutdown has returned, and a Start issued after it stands at its
\* return of "runner is not enabled", with nothing registered.
C11_Witness ==
    /\ state = RunnerShutdown
    /\ \A c \in Callers : call[c].op # "Shutdown"
    /\ services = <<>>
    /\ \E c \in Callers :
          /\ call[c].op = "Start" /\ call[c].pc = "return"
          /\ call[c].sig.errs = <<ErrNotEnabled>>

\* case <-ctxDone of the call caller c is blocked in: it returns ctx.Err().
CtxDone(c) == StartCtxDone(c) \/ HaltCtxDone(c) \/ ShutdownCtxDone(c)

\* The argument lists of the calls that block: one service, and a batch.
BlockingArgs == {<<"s1">>, <<"s1", "s2">>}

\* The callers use Start, Halt and Shutdown only, on BlockingArgs.
NextBlocking ==
    \/ \E c \in Callers, args \in BlockingArgs : Start(c, args)
    \/ \E c \in Callers : StartWait(c)
    \/ \E c \in Callers : StartCtxDone(c)
    \/ \E c \in Callers, args \in BlockingArgs : Halt(c, args)
    \/ \E c \in Callers : HaltWait(c)
    \/ \E c \in Callers : HaltCtxDone(c)
    \/ \E c \in Callers : Shutdown(c)
    \/ \E c \in Callers : ShutdownWait(c)
    \/ \E c \in Callers : ShutdownCtxDone(c)
    \/ \E c \in Callers : Return(c)
    \/ \E id \in 1..MaxID : Ready(id)
    \/ \E id \in 1..MaxID, err \in RunErrs : ended(id, err)

\* The behaviours in which the outer cancellation of every blocked call
\* fires and its caller is scheduled: the ctxDone case, once it can be
\* taken for good, is taken. Nothing is assumed of the workers.
SpecCancel ==
    Init /\ [][NextBlocking]_vars /\ \A c \in Callers : WF_vars(CtxDone(c))

\* C12 (outer cancellation is honoured): a caller blocked in the select of
\* Start, Halt or Shutdown whose outer cancellation fires returns, whatever
\* the services do; and a call that leaves its select while its Signal is
\* incomplete leaves it through the ctxDone case, with ctx.Err().
C12_CancellationHonoured ==
    /\ \A c \in Callers : (call[c].pc = "select") ~> (call[c].pc = "idle")
    /\ [][\A c \in Callers :
            (call[c].pc = "select" /\ call'[c].pc # "select" /\ ~Waiter(c))
            => CtxDone(c)]_vars

\* A caller is blocked in Halt on a service whose worker has not returned
\* while the other is blocked in Start on a service that is not ready.
C12_Witness ==
    \E c1, c2 \in Callers :
        /\ call[c1].op = "Halt" /\ call[c1].pc = "select" /\ ~Waiter(c1)
        /\ call[c2].op = "Start" /\ call[c2].pc = "select" /\ ~Waiter(c2)

\* C13 (a cancelled Halt leaks): when a Halt returns through ctxDone, the
\* registry, the runnerServices and their workers are as they were: every
\* service it was halting whose worker has not returned is still
\* registered, still running, in Halting, and State reports Halting; no
\* service is started or ended by the return.
C13_CancelledHaltLeaks ==
    [][\A c \in Callers :
         HaltCtxDone(c) =>
            /\ UNCHANGED <<services, rsvc, nextID, state, onEnd>>
            /\ \A id \in call[c].ids \cap DOMAIN rsvc :
                  /\ rsvc'[id].worker = "running"
                  /\ StateOf(rsvc'[id]) = Halting
                  /\ isRunning(services', rsvc[id].service)
                  /\ services'[rsvc[id].service] = id
                  /\ State(rsvc[id].service)' = Halting]_vars

\* After a Start and a Halt, no caller is in any call, and yet a service is
\* registered in Halting with its worker running and a halt waiter nobody
\* reads: the Halt was cancelled.
C13_Witness ==
    /\ ncalls = 2 /\ state = RunnerEnabled
    /\ \A c \in Callers : call[c].pc = "idle"
    /\ \E d \in DOMAIN services :
          /\ State(d) = Halting
          /\ rsvc[services[d]].worker = "running"
          /\ rsvc[services[d]].waiters # <<>>

endedOnDone(id) ==
    /\ id \in DOMAIN rsvc
    /\ rsvc[id].done = ChanClosed
    /\ ended(id, NoErr)

\* Every task blocks on Done and returns nil once it is raised; no outer
\* cancellation of a Shutdown fires.
NextDrain ==
    \/ \E c \in Callers, args \in BlockingArgs : Start(c, args)
    \/ \E c \in Callers : StartWait(c)
    \/ \E c \in Callers : StartCtxDone(c)
    \/ \E c \in Callers, args \in BlockingArgs : Halt(c, args)
    \/ \E c \in Callers : HaltWait(c)
    \/ \E c \in Callers : HaltCtxDone(c)
    \/ \E c \in Callers : Shutdown(c)
    \/ \E c \in Callers : ShutdownWait(c)
    \/ \E c \in Callers : Return(c)
    \/ \E id \in 1..MaxID : Ready(id)
    \/ \E id \in 1..MaxID : endedOnDone(id)

\* The workers and the caller of Shutdown are scheduled: a task whose Done
\* is raised returns, a Shutdown whose Signal is complete receives it.
SpecDrain ==
    /\ Init /\ [][NextDrain]_vars
    /\ \A id \in 1..MaxID : WF_vars(endedOnDone(id))
    /\ \A c \in Callers : WF_vars(ShutdownWait(c))

\* C15 (Shutdown drains): a Shutdown from Enabled or Suspended sets
\* RunnerState to Shutdown and puts every registered service in Halting;
\* it eventually returns; and when it returns, it returns nil, the registry
\* is empty, no worker is left, every service it halted has ended with its
\* end callback dispatched, and the last worker ended with err = nil.
C15_ShutdownDrains ==
    /\ \A c \in Callers :
          (call[c].op = "Shutdown" /\ call[c].pc = "select")
          ~> (call[c].pc = "idle")
    /\ [][\A c \in Callers :
            /\ (Shutdown(c) /\ state \in {RunnerEnabled, RunnerSuspended})
               => /\ state' = RunnerShutdown
                  /\ call'[c].ids = {services[d] : d \in DOMAIN services}
                  /\ \A d \in DOMAIN services : State(d)' = Halting
            /\ ShutdownWait(c)
               => /\ call[c].sig.errs = <<>>
                  /\ services = <<>> /\ DOMAIN rsvc = {}
                  /\ Sum(onEnd, Descs) = nextID
                  /\ call[c].ids # {} => last[2] = NoErr]_vars

\* A Shutdown that found two services running is about to return nil: the
\* registry is empty and both end callbacks are dispatched.
C15_Witness ==
    \E c \in Callers :
        /\ call[c].op = "Shutdown" /\ call[c].pc = "select"
        /\ Cardinality(call[c].ids) = 2
        /\ Waiter(c) /\ call[c].sig.errs = <<>>
        /\ services = <<>>
        /\ onEnd["s1"] = 1 /\ onEnd["s2"] = 1

\* C16 (a nil return is never promoted to success): when a worker ends with
\* Run returning nil while its service is not in Halting, an error is
\* surfaced: the end callback is given a non-nil error or a caller's Signal
\* receives one; and when the service had not become ready, the Start that
\* waits for it does not find its Signal complete without an error.
C16_NilNotPromoted ==
    [][\A id \in 1..MaxID :
         (ended(id, NoErr) /\ StateOf(rsvc[id]) # Halting)
         => /\ \/ last'[2] # NoErr
               \/ \E c \in Callers : call'[c].sig.errs # call[c].sig.errs
            /\ rsvc[id].stage = StageReady
               => \A c \in Callers :
                     (/\ call[c].op = "Start" /\ call[c].pc = "select"
                      /\ id \in call[c].ids /\ call[c].ref = rsvc[id].ready)
                     => ~(Waiter(c)' /\ call'[c].sig.errs = <<>>)]_vars

IsPrefix(s, t) == Len(s) <= Len(t) /\ SubSeq(t, 1, Len(s)) = s

\* C17 (batch error aggregation): the errors a Start or Halt returns through
\* its Signal are exactly the non-nil per-service results. While the call
\* waits, no step removes an error it has received; a step adds errors only
\* for results it delivers, each the Run error of the worker that ended; a
\* non-nil result routed to the call is added. A Start's loop gives one
\* "service already running" per descriptor it could not register and
\* registers every other one. The return changes neither the registry nor
\* any service: nothing that started is rolled back.
C17_BatchAggregation ==
    [][\A c \in Callers :
         /\ (call[c].pc = "select" /\ call'[c].pc = "select")
            => LET old == call[c].sig
                   new == call'[c].sig
               IN /\ call'[c].ref = call[c].ref
                  /\ IsPrefix(old.errs, new.errs)
                  /\ new.pending <= old.pending
                  /\ Len(new.errs) - Len(old.errs) <= old.pending - new.pending
                  /\ \A i \in (Len(old.errs) + 1)..Len(new.errs) :
                        new.errs[i] = last'[2] /\ new.errs[i] # NoErr
                  /\ \A id \in DOMAIN rsvc \ DOMAIN rsvc' :
                        (/\ last'[2] # NoErr
                         /\ \/ /\ rsvc[id].stage = StageReady
                               /\ rsvc[id].ready = call[c].ref
                            \/ /\ rsvc[id].stage = StageRun
                               /\ Count(rsvc[id].waiters, call[c].ref) > 0)
                        => Len(new.errs) > Len(old.errs)
         /\ (StartWait(c) \/ HaltWait(c))
            => UNCHANGED <<services, rsvc, nextID, state>>
         /\ \A args \in ArgLists :
               (Start(c, args) /\ state = RunnerEnabled /\ Len(args) > 0)
               => LET nils == Cardinality({i \in 1..Len(args) : args[i] = NilSvc})
                      k == Len(args) - nils - Cardinality(call'[c].ids)
                  IN /\ \A i \in 1..Len(args) :
                          args[i] # NilSvc => isRunning(services', args[i])
                     /\ call'[c].sig.pending = Cardinality(call'[c].ids)
                     /\ call'[c].sig.errs = [i \in 1..k |-> ErrAlreadyRunning]]_vars

\* A Start over two services is about to return the one error of the
\* service that failed, while its sibling is registered and Started.
C17_Witness ==
    \E c \in Callers :
        /\ call[c].op = "Start" /\ call[c].pc = "select"
        /\ Waiter(c) /\ call[c].sig.errs = <<ErrRun>>
        /\ Cardinality(call[c].ids) = 2
        /\ \E id \in call[c].ids : id \notin DOMAIN rsvc
        /\ \E id \in call[c].ids :
              id \in DOMAIN rsvc /\ StateOf(rsvc[id]) = Started

\* The blocking operations and the workers, with no scheduling assumption.
SpecBlocking == Init /\ [][NextBlocking]_vars

\* C18 (callbacks never block the Runner): the end callbacks are only
\* dispatched, each on a goroutine of its own, and nothing waits for one to
\* return. Whatever callbacks are outstanding: a running worker can take its
\* end path, a caller whose Signal is complete can return, and a goroutine
\* that is in no call (a callback re-entering the Runner is one) can enter
\* Halt, Shutdown and Start. The end step that dispatches
\* the callbacks also removes the record and notifies every waiting caller.
C18_CallbacksNeverBlock ==
    /\ [](\A id \in DOMAIN rsvc :
             rsvc[id].worker = "running"
             => \A err \in RunErrs : ENABLED ended(id, err))
    /\ [](\A c \in Callers :
             /\ (call[c].pc = "select" /\ Waiter(c))
                => ENABLED (StartWait(c) \/ HaltWait(c) \/ ShutdownWait(c))
             /\ CanCall(c)
                => /\ ENABLED Halt(c, <<"s1">>)
                   /\ ENABLED Shutdown(c)
                   /\ (nextID < MaxID \/ state # RunnerEnabled
                         \/ isRunning(services, "s1"))
                      => ENABLED Start(c, <<"s1">>))
    /\ [][\A id \in DOMAIN rsvc, err \in RunErrs :
            ended(id, err)
            => /\ onEnd'[rsvc[id].service] = onEnd[rsvc[id].service] + 1
               /\ id \notin DOMAIN rsvc'
               /\ \A c \in Callers :
                     (/\ call[c].pc = "select"
                      /\ \/ Count(rsvc[id].waiters, call[c].ref) > 0
                         \/ rsvc[id].ready = call[c].ref)
                     => call'[c].sig.pending < call[c].sig.pending]_vars

\* An end callback has been dispatched and nothing is known of its return,
\* while another service is being halted and its caller waits.
C18_Witness ==
    /\ onEnd["s1"] > 0
    /\ \E c \in Callers :
          /\ call[c].op = "Halt" /\ call[c].pc = "select" /\ ~Waiter(c)
          /\ \E id \in call[c].ids :
                /\ id \in DOMAIN rsvc
                /\ rsvc[id].service = "s2"
                /\ StateOf(rsvc[id]) = Halting

\* C19 (Ready after halt is an error): a Ready called while the service is
\* in Halting, or after Ready was already called, returns an error, and no
\* step moves a Halting service to Started; Ready returns nil only when the
\* service is in Starting and Ready has not been called.
C19_ReadyAfterHalt ==
    /\ [](\A id \in DOMAIN rsvc :
             rsvc[id].worker = "running"
             => /\ (StateOf(rsvc[id]) = Halting \/ rsvc[id].readyCalled)
                   => ReadyResult(rsvc, id) # NoErr
                /\ ReadyResult(rsvc, id) = NoErr
                   => StateOf(rsvc[id]) = Starting /\ ~rsvc[id].readyCalled)
    /\ [][\A id \in DOMAIN rsvc \cap DOMAIN rsvc' :
            StateOf(rsvc[id]) = Halting => StateOf(rsvc'[id]) # Started]_vars

\* C20 (RunnerState guards): Suspend succeeds, installing Suspended, exactly
\* from Enabled, and Shutdown proceeds, installing Shutdown, exactly from
\* Enabled or Suspended; from any other RunnerState the call returns "runner
\* is not enabled" and changes neither RunnerState, nor the registry, nor
\* any service's record.
C20_RunnerStateGuards ==
    [][\A c \in Callers :
         /\ Suspend(c)
            => /\ call'[c].pc = "return"
               /\ UNCHANGED <<services, rsvc, nextID>>
               /\ IF state = RunnerEnabled
                  THEN state' = RunnerSuspended /\ call'[c].sig.errs = <<>>
                  ELSE UNCHANGED state /\ call'[c].sig.errs = <<ErrNotEnabled>>
         /\ Shutdown(c)
            => IF state \in {RunnerEnabled, RunnerSuspended}
               THEN state' = RunnerShutdown /\ call'[c].pc = "select"
               ELSE /\ call'[c].pc = "return"
                    /\ call'[c].sig.errs = <<ErrNotEnabled>>
                    /\ UNCHANGED <<state, services, rsvc, nextID>>]_vars

\* A second Shutdown, with no Enable in between, is returning "runner is not
\* enabled" while the first still waits for a service it put in Halting.
C20_Witness ==
    /\ state = RunnerShutdown
    /\ \E c1, c2 \in Callers :
          /\ call[c1].op = "Shutdown" /\ call[c1].pc = "return"
          /\ call[c1].sig.errs = <<ErrNotEnabled>>
          /\ call[c2].op = "Shutdown" /\ call[c2].pc = "select" /\ ~Waiter(c2)
          /\ \E id \in call[c2].ids :
                /\ id \in DOMAIN rsvc
                /\ rsvc[id].waiters = <<call[c2].ref>>

\* C21 as stated (Shutdown is terminal): once RunnerState is Shutdown, no
\* step changes it.
C21_Original == [][state = RunnerShutdown => state' = RunnerShutdown]_vars

\* C21 (Shutdown is left only through Enable): once RunnerState is Shutdown,
\* the only step that changes it is an Enable, which installs Enabled; Start,
\* Halt, Suspend, Shutdown, their returns and the workers leave it Shutdown.
C21_ShutdownUntilEnable ==
    [][(state = RunnerShutdown /\ state' # RunnerShutdown)
       => /\ state' = RunnerEnabled
          /\ \E c \in Callers : Enable(c)]_vars

\* A Suspend issued on a Runner in Shutdown is returning its error, and the
\* Runner is still in Shutdown.
C21_Witness ==
    /\ state = RunnerShutdown
    /\ \E c \in Callers :
          /\ call[c].op = "Suspend" /\ call[c].pc = "return"
          /\ call[c].sig.errs = <<ErrNotEnabled>>

\* C22 (Enable restores Enabled): from every RunnerState an Enable installs
\* Enabled and returns nil, and changes neither the registry, nor any
\* service's record, nor another caller's call; and a Start of at least one
\* service issued while the Runner is Enabled is not rejected: it reaches
\* its select.
C22_EnableRestores ==
    [][\A c \in Callers :
         /\ Enable(c)
            => /\ state' = RunnerEnabled
               /\ call'[c].pc = "return" /\ call'[c].sig.errs = <<>>
               /\ UNCHANGED <<services, rsvc, nextID, onEnd, last>>
               /\ \A o \in Callers \ {c} : call'[o] = call[o]
         /\ \A args \in ArgLists :
               (/\ state = RunnerEnabled /\ Len(args) > 0
                /\ call[c].pc = "idle" /\ call'[c].op = "Start"
                /\ Start(c, args))
               => call'[c].pc = "select"]_vars

\* An Enable is returning nil on a Runner whose Shutdown was cancelled: the
\* service that Shutdown left in Halting is still registered, in Halting.
C22_Witness ==
    /\ state = RunnerEnabled
    /\ \E c \in Callers :
          /\ call[c].op = "Enable" /\ call[c].pc = "return"
          /\ call[c].sig.errs = <<>>
    /\ \A c \in Callers : call[c].pc # "select"
    /\ \E d \in DOMAIN services :
          /\ State(d) = Halting
          /\ rsvc[services[d]].worker = "running"

\* C23 (Suspend only blocks new starts): a Suspend from Enabled changes
\* RunnerState to Suspended and nothing else: no record changes (no state,
\* no done channel, no waiter list), no Signal of another caller is
\* completed. While Suspended, a Start of at least one service is rejected
\* and registers nothing, and a Halt has the effect it has when Enabled: it
\* returns nil at once for no descriptor, and otherwise waits on a Signal
\* with one pending slot per halting of a registered descriptor, each of
\* which is in Halting with its done channel closed afterwards; State
\* reports the state of the registered record.
C23_SuspendOnlyBlocksStart ==
    [][\A c \in Callers :
         /\ (state = RunnerEnabled /\ Suspend(c))
            => /\ state' = RunnerSuspended
               /\ UNCHANGED <<services, rsvc, nextID, onEnd, last>>
               /\ \A o \in Callers \ {c} : call'[o] = call[o]
         /\ \A args \in ArgLists :
               /\ (state = RunnerSuspended /\ Len(args) > 0 /\ Start(c, args))
                  => /\ call'[c].pc = "return"
                     /\ call'[c].sig.errs = <<ErrNotEnabled>>
                     /\ UNCHANGED <<services, rsvc, nextID, state>>
               /\ (state = RunnerSuspended /\ Halt(c, args))
                  => /\ UNCHANGED <<services, nextID, state>>
                     /\ IF Len(args) = 0
                        THEN call'[c].pc = "return" /\ call'[c].sig.errs = <<>>
                        ELSE /\ call'[c].pc = "select"
                             /\ call'[c].sig.pending =
                                  Cardinality({i \in 1..Len(args) :
                                                 isRunning(services, args[i])})
                             /\ \A i \in 1..Len(args) :
                                   isRunning(services, args[i])
                                   => /\ State(args[i])' = Halting
                                      /\ rsvc'[services[args[i]]].done = ChanClosed
                             /\ \A id \in DOMAIN rsvc :
                                   (\A i \in 1..Len(args) :
                                       rsvc[id].service # args[i])
                                   => rsvc'[id] = rsvc[id]]_vars

\* While the Runner is Suspended, a Halt waits for a service that was
\* started before the Suspend and is now in Halting.
C23_Witness ==
    /\ state = RunnerSuspended
    /\ \E c \in Callers :
          /\ call[c].op = "Halt" /\ call[c].pc = "select" /\ ~Waiter(c)
          /\ \E id \in call[c].ids :
                id \in DOMAIN rsvc /\ StateOf(rsvc[id]) = Halting

\* The blocking operations and the workers, each end path observed with the
\* stage given to its end callbacks.
NextObserved ==
    \/ \E c \in Callers, args \in BlockingArgs : Start(c, args)
    \/ \E c \in Callers : StartWait(c)
    \/ \E c \in Callers : StartCtxDone(c)
    \/ \E c \in Callers, args \in BlockingArgs : Halt(c, args)
    \/ \E c \in Callers : HaltWait(c)
    \/ \E c \in Callers : HaltCtxDone(c)
    \/ \E c \in Callers : Shutdown(c)
    \/ \E c \in Callers : ShutdownWait(c)
    \/ \E c \in Callers : ShutdownCtxDone(c)
    \/ \E c \in Callers : Return(c)
    \/ \E id \in 1..MaxID : Ready(id)
    \/ \E id \in 1..MaxID, err \in RunErrs : endedObserved(id, err)

SpecObserved == Init /\ [][NextObserved]_vars

NextQuery ==
    \/ \E c \in Callers, args \in BlockingArgs : Start(c, args)
    \/ \E c \in Callers : StartWait(c)
    \/ \E c \in Callers, args \in BlockingArgs : Halt(c, args)
    \/ \E c \in Callers : HaltWait(c)
    \/ \E c \in Callers : Return(c)
    \/ \E id \in 1..MaxID : Ready(id)
    \/ \E id \in 1..MaxID, err \in RunErrs : ended(id, err)
    \/ \E c \in Callers, query \in Queries, limit \in Limits, into \in Intos :
          Services(c, query, limit, into)

SpecQuery == Init /\ [][NextQuery]_vars

\* C25 (Services query): whatever into is, the slice Services returns holds
\* only registered services, each with its current state, which matches the
\* query, and each at most once; at most limit entries when limit > 0, and
\* every match when limit <= 0; nothing when the query is Halted.
C25_ServicesQuery ==
    [][\A c \in Callers, query \in Queries, limit \in Limits, into \in Intos :
         (call[c].pc = "idle" /\ call'[c].op = "Services"
            /\ Services(c, query, limit, into))
            => LET out == call'[c].out IN
               /\ \A i \in DOMAIN out :
                     /\ isRunning(services, out[i].Service)
                     /\ out[i].State = State(out[i].Service)
                     /\ Match(out[i].State, query)
               /\ \A i, j \in DOMAIN out :
                     out[i].Service = out[j].Service => i = j
               /\ limit > 0 => Len(out) <= limit
               /\ limit <= 0
                  => \A d \in DOMAIN services :
                        Match(State(d), query)
                        => \E i \in DOMAIN out : out[i].Service = d
               /\ query = {Halted} => out = <<>>]_vars

\* The step is a section of code that runs with the registry lock rn.mu
\* held from its first statement to its last: Start's loop, Halt's loop,
\* Shutdown's locked function, or the end path.
HoldsRegistryLock ==
    \/ \E c \in Callers, args \in ArgLists : Start(c, args) \/ Halt(c, args)
    \/ \E c \in Callers : Shutdown(c)
    \/ \E id \in DOMAIN rsvc, err \in RunErrs : ended(id, err)

\* The step completes a slot of the Signal caller c waits on, or of the
\* Signal c has just created.
Notified(c) ==
    \/ /\ call[c].pc = "select" /\ call'[c].pc = "select"
       /\ call'[c].sig.pending < call[c].sig.pending
    \/ /\ call[c].pc = "idle" /\ call'[c].pc = "select"
       /\ \E args \in ArgLists :
             /\ Start(c, args) \/ Halt(c, args)
             /\ call'[c].sig.pending < Len(args)

\* C26 (waiters are notified outside the registry lock): no step that
\* completes a slot of a waiter Signal is a section that holds the registry
\* lock.
C26_NotifyOutsideLock ==
    [][\A c \in Callers : Notified(c) => ~HoldsRegistryLock]_vars

RnMu == <<"rn.mu", 0>>
RsMu(id) == <<"rs.mu", id>>

Lock(l) == <<"Lock", l>>
Unlock(l) == <<"Unlock", l>>

\* The end path taking the record's lock before the registry lock.
LockPathReversed(op, id) ==
    IF op = "ended"
    THEN <<Lock(RsMu(id)), Lock(RnMu), Unlock(RnMu), Unlock(RsMu(id))>>
    ELSE <<Lock(RnMu), Unlock(RnMu)>>

\* The Lock and Unlock calls of each path of the Runner, in program order,
\* when the path works on runnerService id. The methods of runnerService
\* (starting, halting, State, Ready) take rs.mu for their own duration.
LockPath(op, id) ==
    CASE op \in {"Start", "Halt", "Shutdown", "Services", "ended"}
            -> <<Lock(RnMu), Lock(RsMu(id)), Unlock(RsMu(id)), Unlock(RnMu)>>
      [] op = "State"
            -> <<Lock(RnMu), Unlock(RnMu), Lock(RsMu(id)), Unlock(RsMu(id))>>
      [] op = "Ready"
            -> <<Lock(RsMu(id)), Unlock(RsMu(id))>>
      [] OTHER
            -> <<Lock(RnMu), Unlock(RnMu)>>

LockOps == {"Start", "Halt", "Shutdown", "Services", "ended", "State",
            "Ready", "Enable", "Suspend"}

\* The locks goroutine c holds, in the order it acquired them.
Held(c) == IF call[c].pc = "locks" THEN call[c].held ELSE <<>>

IsHeld(l) == \E c \in Callers : \E i \in DOMAIN Held(c) : Held(c)[i] = l

\* Goroutine c enters the path op on runnerService id.
Enter(c, op, id) ==
    /\ CanCall(c)
    /\ ncalls' = ncalls + 1
    /\ call' = [call EXCEPT ![c] =
                  [pc |-> "locks", op |-> op, todo |-> LockPath(op, id),
                   held |-> <<>>, clean |-> call[c].clean]]
    /\ UNCHANGED <<state, services, nextID, rsvc, onEnd, last>>

\* mu.Lock(): blocks while another goroutine holds the lock.
Acquire(c) ==
    /\ call[c].pc = "locks" /\ call[c].todo # <<>>
    /\ Head(call[c].todo)[1] = "Lock"
    /\ ~IsHeld(Head(call[c].todo)[2])
    /\ call' = [call EXCEPT ![c].todo = Tail(@),
                            ![c].held = Append(@, Head(call[c].todo)[2])]
    /\ UNCHANGED <<state, services, nextID, rsvc, ncalls, onEnd, last>>

\* mu.Unlock()
Release(c) ==
    /\ call[c].pc = "locks" /\ call[c].todo # <<>>
    /\ Head(call[c].todo)[1] = "Unlock"
    /\ call' = [call EXCEPT ![c].todo = Tail(@),
                            ![c].held = SelectSeq(@, LAMBDA l :
                                            l # Head(call[c].todo)[2])]
    /\ UNCHANGED <<state, services, nextID, rsvc, ncalls, onEnd, last>>

\* The path is done.
Leave(c) ==
    /\ call[c].pc = "locks" /\ call[c].todo = <<>>
    /\ call' = [call EXCEPT ![c] = IdleAfter(call[c].clean)]
    /\ UNCHANGED <<state, services, nextID, rsvc, ncalls, onEnd, last>>

NextLocks ==
    \/ \E c \in Callers, op \in LockOps, id \in 1..MaxID : Enter(c, op, id)
    \/ \E c \in Callers : Acquire(c)
    \/ \E c \in Callers : Release(c)
    \/ \E c \in Callers : Leave(c)

SpecLocks == Init /\ [][NextLocks]_vars

\* C28 (lock ordering): a goroutine that holds both the registry lock and a
\* runnerService lock took the registry lock first; no goroutine takes the
\* registry lock while it holds a runnerService lock; and the goroutines
\* inside the Runner never all wait for a lock: one of them can always take
\* its next step.
C28_LockOrdering ==
    /\ [](\A c \in Callers :
             \A i, j \in DOMAIN Held(c) :
                (Held(c)[i] = RnMu /\ Held(c)[j] # RnMu) => i < j)
    /\ []((\E c \in Callers : call[c].pc = "locks")
            => \E c \in Callers :
                  ENABLED (Acquire(c) \/ Release(c) \/ Leave(c)))
    /\ [][\A c \in Callers :
            (Acquire(c) /\ Head(call[c].todo)[2] = RnMu) => Held(c) = <<>>]_vars

\* The end path of one service holds the registry lock and its record's
\* lock while another goroutine, about to read a state, waits for the
\* registry lock.
C28_Witness ==
    \E c1, c2 \in Callers :
        /\ call[c1].pc = "locks" /\ call[c1].op = "ended"
        /\ Len(call[c1].held) = 2 /\ call[c1].held[1] = RnMu
        /\ call[c2].pc = "locks" /\ call[c2].op = "State"
        /\ call[c2].held = <<>> /\ call[c2].todo # <<>>

\* ------------------------------------------------- a starting that fails

\* One iteration of Start's loop when rs.starting(ctx) returns an error for
\* the descriptors of fail: the record is in rn.services already, the error
\* completes the slot of the readiness Signal, and the loop goes on without
\* starting the goroutine that runs the task and the end path.
StartOneFailing(st, svc, ref, fail) ==
    IF svc # NilSvc /\ ~isRunning(st.services, svc) /\ svc \in fail
    THEN LET id == st.nextID + 1 IN
         [st EXCEPT !.nextID = id,
                    !.services = (svc :> id) @@ @,
                    !.rsvc = @ @@ (id :> [newRunnerService(id, svc, ref)
                                            EXCEPT !.worker = "none"]),
                    !.sig = [pending |-> @.pending - 1,
                             errs |-> Append(@.errs, ErrState)]]
    ELSE StartOne(st, svc, ref)

RECURSIVE StartLoopFailing(_, _, _, _)
StartLoopFailing(st, args, ref, fail) ==
    IF args = <<>> THEN st
    ELSE StartLoopFailing(StartOneFailing(st, Head(args), ref, fail),
                          Tail(args), ref, fail)

\* Start, up to the select, when rs.starting fails for some descriptor.
StartFailing(c, args) ==
    /\ CanCall(c)
    /\ state = RunnerEnabled
    /\ ncalls' = ncalls + 1
    /\ UNCHANGED state
    /\ \E fail \in SUBSET {"s1", "s2"} :
         LET st == StartLoopFailing([services |-> services, nextID |-> nextID,
                                     rsvc |-> rsvc,
                                     sig |-> NewSignal(Len(args)),
                                     ids |-> {}], args, NextSignal, fail)
             new == DOMAIN st.services \ DOMAIN services
         IN /\ \E d \in new : st.rsvc[st.services[d]].worker = "none"
            /\ st.nextID <= MaxID
            /\ services' = st.services
            /\ nextID' = st.nextID
            /\ rsvc' = st.rsvc
            /\ UNCHANGED <<onEnd, last>>
            /\ call' = [Unclean(call, new) EXCEPT
                          ![c] = Blocked("Start", st.ids, st.sig,
                                         call[c].clean \cap new)]

NextStarting ==
    \/ \E c \in Callers, args \in BlockingArgs : Start(c, args)
    \/ \E c \in Callers, args \in BlockingArgs : StartFailing(c, args)
    \/ \E c \in Callers : StartWait(c)
    \/ \E c \in Callers, args \in BlockingArgs : Halt(c, args)
    \/ \E c \in Callers : HaltWait(c)
    \/ \E id \in 1..MaxID : Ready(id)
    \/ \E id \in 1..MaxID, err \in RunErrs : ended(id, err)

SpecStarting == Init /\ [][NextStarting]_vars

\* C29 (every registered record has a worker): every runnerService in the
\* registry has a goroutine that runs its task and will run the end path for
\* it, also after a Start whose rs.starting failed.
C29_RegisteredHasWorker ==
    \A d \in DOMAIN services :
        /\ services[d] \in DOMAIN rsvc
        /\ rsvc[services[d]].worker = "running"

\* The consequence: a Halt of such a record has made it Halting and waits on
\* a Signal that no end path will ever complete.
C29_HaltStuck ==
    ~ \E c \in Callers, d \in DOMAIN services :
        /\ call[c].pc = "select" /\ call[c].op = "Halt"
        /\ services[d] \in call[c].ids
        /\ rsvc[services[d]].worker = "none"
        /\ ~Waiter(c)

\* ------------------------------------------------ halting while Halting

\* Every task returns once its Done is raised, and a caller whose Signal is
\* complete receives it.
SpecRehalt ==
    /\ Init /\ [][NextDrain]_vars
    /\ \A id \in 1..MaxID : WF_vars(endedOnDone(id))
    /\ \A c \in Callers : WF_vars(HaltWait(c))
    /\ \A c \in Callers : WF_vars(ShutdownWait(c))

\* Caller c is in the select of Halt or Shutdown.
Halts(c) == call[c].pc = "select" /\ call[c].op \in {"Halt", "Shutdown"}

StateThrough(id) ==
    IF id \in DOMAIN rsvc THEN StateOf(rsvc[id]) ELSE last[1]

\* State, the section that holds rn.mu: rs := rn.services[svc]. An
\* unregistered descriptor is Halted.
StateLookup(c, svc) ==
    /\ CanCall(c)
    /\ ncalls' = ncalls + 1
    /\ call' = [call EXCEPT ![c] =
                  IF isRunning(services, svc)
                  THEN [pc |-> "rs.State", op |-> "State", ref |-> NoSignal,
                        ids |-> {services[svc]},
                        sig |-> [pending |-> 0, errs |-> <<>>],
                        clean |-> call[c].clean, out |-> Halted]
                  ELSE [pc |-> "return", op |-> "State", ref |-> NoSignal,
                        ids |-> {}, sig |-> [pending |-> 0, errs |-> <<>>],
                        clean |-> call[c].clean, out |-> Halted]]
    /\ UNCHANGED <<state, services, nextID, rsvc, onEnd, last>>

\* State, after rn.mu.Unlock(): state = rs.State().
StateRead(c) ==
    /\ call[c].pc = "rs.State"
    /\ \E id \in call[c].ids :
          call' = [call EXCEPT ![c].pc = "return", ![c].ids = {},
                               ![c].out = StateThrough(id)]
    /\ UNCHANGED <<state, services, nextID, rsvc, ncalls, onEnd, last>>

\* Callers start, halt and ask for the State of services while the workers
\* end.
NextState ==
    \/ \E c \in Callers, args \in BlockingArgs : Start(c, args)
    \/ \E c \in Callers : StartWait(c)
    \/ \E c \in Callers, args \in BlockingArgs : Halt(c, args)
    \/ \E c \in Callers : HaltWait(c)
    \/ \E c \in Callers, svc \in Descs : StateLookup(c, svc)
    \/ \E c \in Callers : StateRead(c)
    \/ \E c \in Callers : Return(c)
    \/ \E id \in 1..MaxID : Ready(id)
    \/ \E id \in 1..MaxID, err \in RunErrs : ended(id, err)

SpecState == Init /\ [][NextState]_vars

\* C31 (State never reports Ended): whatever runs between the two sections
\* of State, the State it returns is Starting, Started or Halting for a
\* service the Runner tracks and Halted for one it does not track; it is
\* never Ended.
C31_StateNeverEnded ==
    \A c \in Callers :
        (call[c].pc = "return" /\ call[c].op = "State")
        => /\ call[c].out \in {Halted, Starting, Started, Halting}
           /\ call[c].out # Ended

\* ------------------------------------------------------ abandoned waiters

\* C32 (an abandoned waiter never blocks the end path): when a Signal of a
\* runnerService has lost its reader (the Start or Halt that waited on it
\* returned through outer cancellation), the worker can still return and
\* take its end path, with any Run error; and that end step removes the
\* record from the registry, dispatches the end callback and leaves the
\* descriptor such that a Start registers it again without an error.
C32_AbandonedWaiter ==
    /\ [](\A id \in DOMAIN rsvc :
             (rsvc[id].worker = "running" /\ AbandonedSignals(id) # {})
             => \A err \in RunErrs : ENABLED ended(id, err))
    /\ [][\A id \in DOMAIN rsvc, err \in RunErrs :
            (AbandonedSignals(id) # {} /\ ended(id, err))
            => \A d \in {rsvc[id].service} :
               LET st == StartOne([services |-> services', nextID |-> 0,
                                   rsvc |-> rsvc', sig |-> NewSignal(1),
                                   ids |-> {}], d, NoSignal)
               IN /\ id \notin DOMAIN rsvc'
                  /\ ~isRunning(services', d)
                  /\ State(d)' = Halted
                  /\ onEnd'[d] = onEnd[d] + 1
                  /\ isRunning(st.services, d)
                  /\ st.sig.errs = <<>>]_vars

\* A Start and then a Halt of a service have both returned through outer
\* cancellation: its record is Halting with its worker running, and neither
\* its readiness Signal nor its halt waiter has a reader.
C32_Witness ==
    \E id \in DOMAIN rsvc :
        /\ rsvc[id].worker = "running"
        /\ rsvc[id].state = Halting
        /\ rsvc[id].ready \in AbandonedSignals(id)
        /\ Range(rsvc[id].waiters) \cap AbandonedSignals(id) # {}
        /\ \A c \in Callers : call[c].pc = "idle"

====
